---------------------------- MODULE Spec2Model ----------------------------
(***************************************************************************)
(* The retrying request dispatcher of the NotiBoost Node.js SDK            *)
(* (src/index.js): the client's construction, the resource wrappers that   *)
(* enter the dispatcher, and NotiBoostClient.request with its suspension   *)
(* points (a pending HTTP attempt, the 429 sleep, the backoff sleep).      *)
(*                                                                         *)
(* JavaScript values are modelled as records of a fixed shape so that      *)
(* values of different JavaScript types can be compared:                   *)
(*   a number that may be NaN is [nan, val];                               *)
(*   a string-or-number is [t, s, n] with t in {"string", "number"};       *)
(*   a parsed JSON value is [t, props], props a set of <<key, value>>;     *)
(*   an optional string is [present, ...].                                 *)
(***************************************************************************)
EXTENDS Integers, Sequences, FiniteSets, TLC

(* ------------------------------ bounds --------------------------------- *)

\* The `retries` option of the constructor ranges over 0..MaxRetries
\* (and "not given").
MaxRetries == 2

\* Number of request() calls in flight on the one client (SpecConc).
NumCalls == 2

Calls == 1..NumCalls

(* ------------------------- program constants --------------------------- *)

DEFAULT_RETRIES == 3
DEFAULT_TIMEOUT == 30000
HTTPS_PORT == 443
HTTP_PORT == 80
STATUS_OK_MIN == 200
STATUS_OK_END == 300
STATUS_RATE_LIMITED == 429
MS_PER_SECOND == 1000
BACKOFF_BASE == 2
RADIX == 10

(* --------------------------- JavaScript values ------------------------- *)

Num(n) == [nan |-> FALSE, val |-> n]
NaN == [nan |-> TRUE, val |-> 0]

\* a * b on numbers that may be NaN
Times(a, b) == IF a.nan \/ b.nan THEN NaN ELSE Num(a.val * b.val)

StringValue(s) == [t |-> "string", s |-> s, n |-> 0]
NumberValue(n) == [t |-> "number", s |-> "", n |-> n]

\* x === n for a number literal n: same type and same value
StrictEqualsNumber(x, n) == x.t = "number" /\ x.n = n

Obj(props) == [t |-> "object", props |-> props]
EmptyObject == Obj({})
Null == [t |-> "null", props |-> {}]
Undefined == [t |-> "undefined", props |-> {}]

\* data?.key, "" standing for every falsy outcome (undefined, "")
PropOf(data, key) ==
  IF data.t = "object" /\ \E p \in data.props : p[1] = key
    THEN (CHOOSE p \in data.props : p[1] = key)[2]
    ELSE ""

MessageOf(data) == PropOf(data, "message")

\* { ...base, ...over }: the keys of over replace those of base
Merge(base, over) ==
  {p \in base : ~ \E q \in over : q[1] = p[1]} \cup over

RECURSIVE Pow(_, _)
Pow(b, e) == IF e = 0 THEN 1 ELSE b * Pow(b, e - 1)

(* ---------------------------- NotiBoostError --------------------------- *)

NotiBoostError(message, statusCode, response) ==
  [name |-> "NotiBoostError", message |-> message,
   statusCode |-> statusCode, response |-> response]

\* a plain Error, as the runtime or line 120 creates it
PlainError(message) ==
  [name |-> "Error", message |-> message, statusCode |-> 0,
   response |-> Undefined]

\* the value of `lastError` before any assignment
NoError ==
  [name |-> "undefined", message |-> "", statusCode |-> 0,
   response |-> Undefined]

InstanceOfNotiBoostError(error) == error.name = "NotiBoostError"

(* ------------------------------ constructor ---------------------------- *)

\* A base URL as written by the caller: scheme and the port text after the
\* host ("" when none is written).
BaseURLs ==
  { [scheme |-> "https", port |-> ""],
    [scheme |-> "https", port |-> "443"],
    [scheme |-> "https", port |-> "8443"],
    [scheme |-> "http",  port |-> ""],
    [scheme |-> "http",  port |-> "443"] }

DefaultBaseURL == [scheme |-> "https", port |-> ""]

RetriesOptions ==
  {[given |-> FALSE, val |-> 0]} \cup
  {[given |-> TRUE, val |-> n] : n \in 0..MaxRetries}

BaseURLOptions ==
  {[given |-> FALSE, url |-> DefaultBaseURL]} \cup
  {[given |-> TRUE, url |-> u] : u \in BaseURLs}

\* options.retries || 3
RetriesOf(opt) == IF opt.given /\ opt.val # 0 THEN opt.val ELSE DEFAULT_RETRIES

\* options.baseURL || 'https://api.notiboost.com'
BaseURLOf(opt) == IF opt.given THEN opt.url ELSE DefaultBaseURL

Constructor(options) ==
  [apiKey  |-> options.apiKey,
   baseURL |-> BaseURLOf(options.baseURL),
   timeout |-> DEFAULT_TIMEOUT,
   retries |-> RetriesOf(options.retries)]

(* ------------------------ request(): the set-up ------------------------ *)

DefaultPortText(scheme) == IF scheme = "https" THEN "443" ELSE "80"

\* new URL(...): the WHATWG parser drops a port equal to the scheme's default
ParseURL(base) ==
  [protocol |-> base.scheme,
   port |-> IF base.port = DefaultPortText(base.scheme) THEN "" ELSE base.port]

\* url.port || (url.protocol === 'https:' ? 443 : 80)
PortOf(url) ==
  IF url.port # "" THEN StringValue(url.port)
  ELSE NumberValue(IF url.protocol = "https" THEN HTTPS_PORT ELSE HTTP_PORT)

\* options.port === 443 || options.port === undefined ? https : http
ProtocolOf(port) ==
  IF StrictEqualsNumber(port, HTTPS_PORT) THEN "https" ELSE "http"

BuildHeaders(apiKey, overrides) ==
  Merge({<<"Authorization", apiKey>>, <<"Content-Type", "application/json">>},
        overrides)

CarriesBody(method, data) ==
  data.t # "undefined" /\ data.t # "null" /\ method \in {"POST", "PUT"}

\* The request options and the body request() builds before its loop.  The
\* body is kept as the value it serialises; its byte length is a token.
RequestOptions(cfg, method, path, data, options) ==
  LET url == ParseURL(cfg.baseURL)
      headers == BuildHeaders(cfg.apiKey, options.headers)
      hasBody == CarriesBody(method, data)
  IN [port    |-> PortOf(url),
      path    |-> path,
      method  |-> method,
      headers |-> IF hasBody
                    THEN Merge(headers, {<<"Content-Length", "byteLength(body)">>})
                    ELSE headers,
      timeout |-> cfg.timeout,
      body    |-> IF hasBody THEN data ELSE Null]

\* What one attempt puts on the wire (_makeRequest, lines 88-91, 123-127)
WireOf(ro) ==
  [module |-> ProtocolOf(ro.port), port |-> ro.port, method |-> ro.method,
   path |-> ro.path, headers |-> ro.headers, body |-> ro.body]

(* -------------------------- response handling -------------------------- *)

Digits == {"0", "1", "2", "3", "4", "5", "6", "7", "8", "9"}

DigitValue(ch) ==
  CASE ch = "0" -> 0 [] ch = "1" -> 1 [] ch = "2" -> 2 [] ch = "3" -> 3
    [] ch = "4" -> 4 [] ch = "5" -> 5 [] ch = "6" -> 6 [] ch = "7" -> 7
    [] ch = "8" -> 8 [] ch = "9" -> 9

RECURSIVE SkipSpaces(_)
SkipSpaces(cs) ==
  IF cs # <<>> /\ Head(cs) = " " THEN SkipSpaces(Tail(cs)) ELSE cs

RECURSIVE DigitPrefix(_, _)
DigitPrefix(cs, acc) ==
  IF cs # <<>> /\ Head(cs) \in Digits
    THEN DigitPrefix(Tail(cs), acc * RADIX + DigitValue(Head(cs)))
    ELSE acc

\* parseInt(text, 10) on a string given as its characters: leading white
\* space, an optional sign, then the longest run of digits; NaN without one.
ParseInt(cs) ==
  LET s == SkipSpaces(cs)
      neg == s # <<>> /\ Head(s) = "-"
      u == IF s # <<>> /\ Head(s) \in {"-", "+"} THEN Tail(s) ELSE s
  IN IF u = <<>> \/ Head(u) \notin Digits THEN NaN
     ELSE Num(IF neg THEN 0 - DigitPrefix(u, 0) ELSE DigitPrefix(u, 0))

AbsentHeader == [present |-> FALSE, chars |-> <<>>]
Header(cs) == [present |-> TRUE, chars |-> cs]

\* parseInt(response.headers['retry-after'] || '1', 10)
RetryAfter(header) ==
  ParseInt(IF header.present /\ header.chars # <<>> THEN header.chars ELSE <<"1">>)

\* retryAfter * 1000
RateLimitSleepMs(header) == Times(RetryAfter(header), Num(MS_PER_SECOND))

\* a backoff whose exponent counts the attempts from 1
BackoffMsFromOne(attempt) ==
  Num(Pow(BACKOFF_BASE, attempt + 1) * MS_PER_SECOND)

\* Math.pow(2, attempt) * 1000
BackoffMs(attempt) == Num(Pow(BACKOFF_BASE, attempt) * MS_PER_SECOND)

\* JSON.parse on the body texts the model's servers send
JSONParse(text) ==
  CASE text = "{\"id\":7}" ->
         [ok |-> TRUE, value |-> Obj({<<"id", "7">>})]
    [] text = "{\"message\":\"slow down\"}" ->
         [ok |-> TRUE, value |-> Obj({<<"message", "slow down">>})]
    [] text = "{\"message\":\"boom\"}" ->
         [ok |-> TRUE, value |-> Obj({<<"message", "boom">>})]
    [] text = "{}" -> [ok |-> TRUE, value |-> EmptyObject]
    [] text = "null" -> [ok |-> TRUE, value |-> Null]
    [] OTHER -> [ok |-> FALSE, value |-> Undefined]

\* a parse without the empty-body case
ParseBodyNoEmptyCase(text) ==
  IF JSONParse(text).ok THEN JSONParse(text).value
  ELSE Obj({<<"message", text>>})

\* res.on('end'): data ? JSON.parse(data) : {}, { message: data } on a throw
ParseBody(text) ==
  IF text = "" THEN EmptyObject
  ELSE IF JSONParse(text).ok THEN JSONParse(text).value
  ELSE Obj({<<"message", text>>})

\* what _makeRequest resolves with
Resolved(resp) ==
  [statusCode |-> resp.status, headers |-> resp.retryAfter,
   data |-> ParseBody(resp.body)]

Is2xx(statusCode) == statusCode >= STATUS_OK_MIN /\ statusCode < STATUS_OK_END

\* a rate-limit retry that is also taken on the last attempt
IsRateLimitRetryInclusive(statusCode, att, retries) ==
  statusCode = STATUS_RATE_LIMITED /\ att <= retries

\* response.statusCode === 429 && attempt < this.retries
IsRateLimitRetry(statusCode, att, retries) ==
  statusCode = STATUS_RATE_LIMITED /\ att < retries

\* response.data?.message || `HTTP ${response.statusCode}`
ErrorMessage(response) ==
  IF MessageOf(response.data) # "" THEN MessageOf(response.data)
  ELSE "HTTP " \o ToString(response.statusCode)

ApiError(response) ==
  NotiBoostError(ErrorMessage(response), response.statusCode, response.data)

\* a catch block that backs off on every error, API errors included
ShouldBackoffAnyError(error, att, retries) == att < retries

\* a catch block that also backs off after the last attempt
ShouldBackoffInclusive(error, att, retries) ==
  att <= retries /\ ~ InstanceOfNotiBoostError(error)

\* attempt < this.retries && !(error instanceof NotiBoostError)
ShouldBackoff(error, att, retries) ==
  att < retries /\ ~ InstanceOfNotiBoostError(error)


(* ------------------------- the modelled inputs ------------------------- *)

ApiKey == "Bearer sk_test"

\* The responses a server may send: status, retry-after header, body text.
SuccessResponses ==
  { [status |-> 200, retryAfter |-> AbsentHeader, body |-> "{\"id\":7}"],
    [status |-> 200, retryAfter |-> AbsentHeader, body |-> "OK"],
    [status |-> 201, retryAfter |-> AbsentHeader, body |-> "null"],
    [status |-> 204, retryAfter |-> AbsentHeader, body |-> ""] }

RateLimitResponses ==
  { [status |-> 429, retryAfter |-> AbsentHeader,
     body |-> "{\"message\":\"slow down\"}"],
    [status |-> 429, retryAfter |-> Header(<<"2">>),
     body |-> "Too Many Requests"],
    [status |-> 429, retryAfter |-> Header(<<"s", "o", "o", "n">>),
     body |-> ""] }

FailureResponses ==
  { [status |-> 500, retryAfter |-> AbsentHeader,
     body |-> "{\"message\":\"boom\"}"],
    [status |-> 404, retryAfter |-> AbsentHeader, body |-> "Not Found"],
    [status |-> 302, retryAfter |-> AbsentHeader, body |-> ""] }

Responses == SuccessResponses \cup RateLimitResponses \cup FailureResponses

\* The errors the runtime may emit on the request ('error' event)
TransportErrors == {PlainError("socket hang up")}

TimeoutError == PlainError("Request timeout")

\* Header sets a caller may pass in the options argument
NoHeaders == {}
IdempotencyHeaders == {<<"Idempotency-Key", "unique-key-12345">>}
ContentTypeHeaders == {<<"Content-Type", "text/plain">>}

Now == "2026-01-01T00:00:00.000Z"

Events ==
  { Obj({<<"event_id", "e1">>}),
    Obj({<<"event_id", "e1">>, <<"occurred_at", "2025-12-31T00:00:00.000Z">>}) }

(* -------------------------------- state -------------------------------- *)

VARIABLES
  options,         \* the argument the client was constructed with
  client,          \* the client's configuration fields
  pc,              \* per call: idle, pending, sleeping, returned, thrown
  attempt,         \* per call: the loop variable of request()
  lastError,       \* per call: the local lastError
  requestOptions,  \* per call: the local requestOptions (and body)
  passed,          \* per call: what the caller passed (entry point, headers)
  sent,            \* per call: what each attempt put on the wire
  hist,            \* per call: how each attempt ended
  sleeps,          \* per call: the argument of each _sleep, in order
  outcome          \* per call: the value returned or the error thrown

vars == <<options, client, pc, attempt, lastError, requestOptions, passed,
          sent, hist, sleeps, outcome>>

NoRequestOptions ==
  [port |-> NumberValue(0), path |-> "", method |-> "", headers |-> {},
   timeout |-> 0, body |-> Null]

NoOutcome == [value |-> Undefined, error |-> NoError]

NotPassed == [entry |-> "", headers |-> {}]

ResponseEvent(resp) ==
  [kind |-> "response", status |-> resp.status, retryAfter |-> resp.retryAfter,
   body |-> resp.body, error |-> NoError]

FailureEvent(error) ==
  [kind |-> "failure", status |-> 0, retryAfter |-> AbsentHeader,
   body |-> "", error |-> error]

InitCalls ==
  /\ pc = [c \in Calls |-> "idle"]
  /\ attempt = [c \in Calls |-> 0]
  /\ lastError = [c \in Calls |-> NoError]
  /\ requestOptions = [c \in Calls |-> NoRequestOptions]
  /\ passed = [c \in Calls |-> NotPassed]
  /\ sent = [c \in Calls |-> <<>>]
  /\ hist = [c \in Calls |-> <<>>]
  /\ sleeps = [c \in Calls |-> <<>>]
  /\ outcome = [c \in Calls |-> NoOutcome]

\* new NotiBoost(options), options.apiKey given
Init ==
  /\ options \in [apiKey : {ApiKey}, baseURL : BaseURLOptions,
                  retries : RetriesOptions]
  /\ client = Constructor(options)
  /\ InitCalls

(* ------------------------------- request() ----------------------------- *)

\* an attempt counter kept in one place for all the calls of the client
AttemptShared(c) == attempt[1]

\* the loop variable `attempt` of call c
Attempt(c) == attempt[c]

\* The head of the for loop with the loop variable at att: the next attempt
\* is made while att <= this.retries, and line 85 throws lastError otherwise.
LoopHead(c, att, ro, err) ==
  /\ attempt' = [attempt EXCEPT ![c] = att]
  /\ IF att <= client.retries
       THEN /\ pc' = [pc EXCEPT ![c] = "pending"]
            /\ sent' = [sent EXCEPT ![c] = Append(@, WireOf(ro))]
            /\ outcome' = outcome
       ELSE /\ pc' = [pc EXCEPT ![c] = "thrown"]
            /\ sent' = sent
            /\ outcome' = [outcome EXCEPT ![c].error = err]

\* request(method, path, data, options) up to its first await
StartRequest(c, entry, callerHeaders, method, path, data, opts) ==
  LET ro == RequestOptions(client, method, path, data, opts)
  IN /\ pc[c] = "idle"
     /\ passed' = [passed EXCEPT ![c] = [entry |-> entry, headers |-> callerHeaders]]
     /\ requestOptions' = [requestOptions EXCEPT ![c] = ro]
     /\ lastError' = [lastError EXCEPT ![c] = NoError]
     /\ LoopHead(c, 0, ro, NoError)
     /\ UNCHANGED <<options, client, hist, sleeps>>

\* client.request(...) called directly
Request(c, method, data, headers) ==
  StartRequest(c, "request", headers, method, "/api/v1/users/u1", data,
               [headers |-> headers])

\* events.ingest(event): the method's one parameter is the event; a further
\* argument of the caller (headers) is bound to nothing.  A missing
\* occurred_at is filled in, and request() is called with three arguments.
EventsIngest(c, event, headers) ==
  LET filled == IF PropOf(event, "occurred_at") = ""
                  THEN Obj(Merge(event.props, {<<"occurred_at", Now>>}))
                  ELSE event
  IN StartRequest(c, "events.ingest", headers, "POST", "/api/v1/events",
                  filled, [headers |-> NoHeaders])

\* users.get(userId)
UsersGet(c) ==
  StartRequest(c, "users.get", NoHeaders, "GET", "/api/v1/users/u1",
               Undefined, [headers |-> NoHeaders])

\* the catch block of the loop body (lines 75-82)
Catch(c, error) ==
  /\ lastError' = [lastError EXCEPT ![c] = error]
  /\ IF ShouldBackoff(error, Attempt(c), client.retries)
       THEN /\ sleeps' = [sleeps EXCEPT ![c] = Append(@, BackoffMs(Attempt(c)))]
            /\ pc' = [pc EXCEPT ![c] = "sleeping"]
            /\ outcome' = outcome
       ELSE /\ sleeps' = sleeps
            /\ pc' = [pc EXCEPT ![c] = "thrown"]
            /\ outcome' = [outcome EXCEPT ![c].error = error]

\* the pending attempt of call c ends with a response (lines 98-111, 59-74)
OnResponse(c, resp) ==
  LET response == Resolved(resp)
  IN /\ pc[c] = "pending"
     /\ hist' = [hist EXCEPT ![c] = Append(@, ResponseEvent(resp))]
     /\ IF Is2xx(response.statusCode)
          THEN /\ pc' = [pc EXCEPT ![c] = "returned"]
               /\ outcome' = [outcome EXCEPT ![c].value = response.data]
               /\ UNCHANGED <<sleeps, lastError>>
          ELSE IF IsRateLimitRetry(response.statusCode, Attempt(c), client.retries)
          THEN /\ sleeps' = [sleeps EXCEPT
                               ![c] = Append(@, RateLimitSleepMs(response.headers))]
               /\ pc' = [pc EXCEPT ![c] = "sleeping"]
               /\ UNCHANGED <<outcome, lastError>>
          ELSE Catch(c, ApiError(response))
     /\ UNCHANGED <<options, client, attempt, requestOptions, passed, sent>>

\* the pending attempt ends with an 'error' event (lines 114-116)
OnError(c, error) ==
  /\ pc[c] = "pending"
  /\ hist' = [hist EXCEPT ![c] = Append(@, FailureEvent(error))]
  /\ Catch(c, error)
  /\ UNCHANGED <<options, client, attempt, requestOptions, passed, sent>>

\* the pending attempt ends with a 'timeout' event (lines 118-121)
OnTimeout(c) ==
  /\ pc[c] = "pending"
  /\ hist' = [hist EXCEPT ![c] = Append(@, FailureEvent(TimeoutError))]
  /\ Catch(c, TimeoutError)
  /\ UNCHANGED <<options, client, attempt, requestOptions, passed, sent>>

\* the timer of _sleep fires: `continue`, attempt++, the loop head
Wake(c) ==
  /\ pc[c] = "sleeping"
  /\ LoopHead(c, Attempt(c) + 1, requestOptions[c], lastError[c])
  /\ UNCHANGED <<options, client, lastError, requestOptions, passed, hist,
                 sleeps>>

(* ---------------------------- specifications --------------------------- *)

\* One call on the client, over all the modelled inputs.
Next ==
  \/ \E m \in {"GET", "POST"}, d \in {Undefined, Obj({<<"name", "n1">>})},
        h \in {IdempotencyHeaders, ContentTypeHeaders} : Request(1, m, d, h)
  \/ \E e \in Events, h \in {NoHeaders, IdempotencyHeaders} : EventsIngest(1, e, h)
  \/ UsersGet(1)
  \/ \E r \in Responses : OnResponse(1, r)
  \/ \E e \in TransportErrors : OnError(1, e)
  \/ OnTimeout(1)
  \/ Wake(1)

Spec == Init /\ [][Next]_vars


\* request() run alone: the loop of lines 56-86 as a function of the way
\* its attempts end, from the loop head with the loop variable at att.  The
\* result is the call's position after the last of the events h.
RECURSIVE Run(_, _, _, _, _)
Run(retries, h, att, sl, err) ==
  IF att > retries
    THEN [pc |-> "thrown", attempt |-> att, sleeps |-> sl, lastError |-> err,
          outcome |-> [value |-> Undefined, error |-> err]]
  ELSE IF h = <<>>
    THEN [pc |-> "pending", attempt |-> att, sleeps |-> sl, lastError |-> err,
          outcome |-> NoOutcome]
  ELSE
    LET ev == Head(h)
        response == Resolved(ev)
        isResp == ev.kind = "response"
        error == IF isResp THEN ApiError(response) ELSE ev.error
    IN IF isResp /\ Is2xx(response.statusCode)
         THEN [pc |-> "returned", attempt |-> att, sleeps |-> sl,
               lastError |-> err,
               outcome |-> [value |-> response.data, error |-> NoError]]
       ELSE IF isResp /\ IsRateLimitRetry(response.statusCode, att, retries)
         THEN LET sl2 == Append(sl, RateLimitSleepMs(response.headers))
              IN IF Tail(h) = <<>>
                   THEN [pc |-> "sleeping", attempt |-> att, sleeps |-> sl2,
                         lastError |-> err, outcome |-> NoOutcome]
                   ELSE Run(retries, Tail(h), att + 1, sl2, err)
       ELSE IF ShouldBackoff(error, att, retries)
         THEN LET sl2 == Append(sl, BackoffMs(att))
              IN IF Tail(h) = <<>>
                   THEN [pc |-> "sleeping", attempt |-> att, sleeps |-> sl2,
                         lastError |-> error, outcome |-> NoOutcome]
                   ELSE Run(retries, Tail(h), att + 1, sl2, error)
       ELSE [pc |-> "thrown", attempt |-> att, sleeps |-> sl,
             lastError |-> error,
             outcome |-> [value |-> Undefined, error |-> error]]

RunAlone(retries, h) == Run(retries, h, 0, <<>>, NoError)

\* NumCalls concurrent calls on one client, over a reduced alphabet: each
\* kind of attempt outcome once.
ConcResponses ==
  { [status |-> 200, retryAfter |-> AbsentHeader, body |-> "{\"id\":7}"],
    [status |-> 429, retryAfter |-> Header(<<"2">>),
     body |-> "Too Many Requests"],
    [status |-> 500, retryAfter |-> AbsentHeader,
     body |-> "{\"message\":\"boom\"}"] }

InitConc ==
  /\ options \in [apiKey : {ApiKey},
                  baseURL : {[given |-> FALSE, url |-> DefaultBaseURL]},
                  retries : {o \in RetriesOptions : o.given /\ o.val > 0}]
  /\ client = Constructor(options)
  /\ InitCalls

NextConc ==
  \E c \in Calls :
    \/ UsersGet(c)
    \/ \E r \in ConcResponses : OnResponse(c, r)
    \/ \E e \in TransportErrors : OnError(c, e)
    \/ Wake(c)

SpecConc == InitConc /\ [][NextConc]_vars


(* ------------------------------ properties ----------------------------- *)

IsResponse(ev) == ev.kind = "response"
IsFailure(ev) == ev.kind = "failure"
IsSuccess(ev) == IsResponse(ev) /\ ev.status >= 200 /\ ev.status <= 299
IsRateLimited(ev) == IsResponse(ev) /\ ev.status = 429
IsOtherStatus(ev) == IsResponse(ev) /\ ~ IsSuccess(ev) /\ ~ IsRateLimited(ev)

Last(seq) == seq[Len(seq)]

\* the number of transport failures among the first i attempts of call c
FailuresUpTo(c, i) == Cardinality({j \in 1..i : IsFailure(hist[c][j])})

Seconds(n) == Num(n * 1000)

\* C1: a client constructed with retries = N (N >= 0, N = 0 included) makes
\* at most 1 + N HTTP attempts in one call of request().
C1_AtMostOnePlusN ==
  \A c \in Calls :
    options.retries.given => Len(sent[c]) <= 1 + options.retries.val

\* C2: an attempt answered with a status that is neither 2xx nor 429 is the
\* call's last: no further attempt, no sleep after it, and the call throws a
\* NotiBoostError whose statusCode is that status, at every attempt index.
C2_ApiErrorFailsAtOnce ==
  \A c \in Calls : \A i \in 1..Len(hist[c]) :
    IsOtherStatus(hist[c][i]) =>
      /\ i = Len(hist[c])
      /\ Len(sent[c]) = i
      /\ Len(sleeps[c]) = i - 1
      /\ pc[c] = "thrown"
      /\ outcome[c].error.name = "NotiBoostError"
      /\ outcome[c].error.statusCode = hist[c][i].status

\* C2 witness: a call fails on a 500 after an earlier retry, with retry
\* budget still left.
C2_Witness ==
  \E c \in Calls :
    /\ Len(hist[c]) = 2
    /\ client.retries >= 2
    /\ IsFailure(hist[c][1])
    /\ hist[c][2].status = 500
    /\ pc[c] = "thrown"
    /\ outcome[c].error.statusCode = 500

\* C3: when every attempt ends in a transport failure, the sleeps between
\* attempts are 1s, 2s, 4s, ... (2^attempt seconds), the call goes on while
\* the client's retry count is not exhausted, and it then throws the final
\* attempt's transport error itself, with no sleep after that attempt.
C3_TransportBackoffThenSurface ==
  \A c \in Calls :
    (hist[c] # <<>> /\ \A i \in 1..Len(hist[c]) : IsFailure(hist[c][i])) =>
      /\ \A i \in 1..Len(sleeps[c]) : sleeps[c][i] = Seconds(Pow(2, i - 1))
      /\ Len(hist[c]) <= client.retries + 1
      /\ Len(hist[c]) <= client.retries =>
           /\ pc[c] \in {"sleeping", "pending"}
           /\ Len(sleeps[c]) = Len(hist[c])
      /\ Len(hist[c]) = client.retries + 1 =>
           /\ pc[c] = "thrown"
           /\ Len(sleeps[c]) = client.retries
           /\ outcome[c].error = Last(hist[c]).error

\* C3 witness: three or more transport failures in a row, the first a socket
\* error and the last a timeout, and the call has thrown the timeout error.
C3_Witness ==
  \E c \in Calls :
    /\ Len(hist[c]) >= 3
    /\ \A i \in 1..Len(hist[c]) : IsFailure(hist[c][i])
    /\ hist[c][1].error = PlainError("socket hang up")
    /\ Last(hist[c]).error = TimeoutError
    /\ pc[c] = "thrown"
    /\ outcome[c].error = TimeoutError
    /\ sleeps[c][2] = Seconds(2)

\* the sleep C4 states for a retry-after header
ClaimedRetryAfterMs(header) ==
  IF ~ header.present \/ ParseInt(header.chars).nan
    THEN Seconds(1)
    ELSE Seconds(ParseInt(header.chars).val)

\* C4: a 429 received while attempt < retries is followed by a sleep of
\* exactly the retry-after header's seconds, and of exactly 1 second when
\* the header is absent or does not parse as a number.
C4_RateLimitSleepsRetryAfter ==
  \A c \in Calls : \A i \in 1..Len(hist[c]) :
    (IsRateLimited(hist[c][i]) /\ i - 1 < client.retries) =>
      /\ Len(sleeps[c]) >= i
      /\ sleeps[c][i] = ClaimedRetryAfterMs(hist[c][i].retryAfter)

\* C5 as stated: the k-th transport-failure retry of a call sleeps 2^(k-1)
\* seconds however many 429 retries came before it, and a transport failure
\* is retried as long as fewer than `retries` transport failures were
\* retried before it.
C5_BackoffIgnoresRateLimitRetries ==
  \A c \in Calls : \A i \in 1..Len(hist[c]) :
    IsFailure(hist[c][i]) =>
      /\ i <= Len(sleeps[c]) =>
           sleeps[c][i] = Seconds(Pow(2, FailuresUpTo(c, i) - 1))
      /\ FailuresUpTo(c, i) <= client.retries =>
           ~ (pc[c] = "thrown" /\ i = Len(hist[c]))

\* C5 amended: 429 retries and transport-failure retries share the one
\* attempt counter.  A transport failure of the attempt with index a
\* (counted from 0 over all attempts of the call, those answered 429
\* included) is retried after 2^a seconds when a < retries and ends the
\* call when a = retries; a call never makes more than 1 + retries attempts.
C5_BackoffCountsEveryAttempt ==
  \A c \in Calls :
    /\ Len(hist[c]) <= client.retries + 1
    /\ \A i \in 1..Len(hist[c]) :
         IsFailure(hist[c][i]) =>
           IF i - 1 < client.retries
             THEN /\ Len(sleeps[c]) >= i
                  /\ sleeps[c][i] = Seconds(Pow(2, i - 1))
             ELSE /\ pc[c] = "thrown"
                  /\ Len(sleeps[c]) = i - 1

\* C5 witness: a 429 retry, then a transport failure retried after 2 s, and
\* a transport failure on the last attempt that the earlier 429 used up.
C5_Witness ==
  \E c \in Calls :
    /\ Len(hist[c]) = client.retries + 1
    /\ Len(hist[c]) >= 3
    /\ IsRateLimited(hist[c][1])
    /\ IsFailure(hist[c][2])
    /\ sleeps[c][2] = Seconds(2)
    /\ IsFailure(Last(hist[c]))
    /\ pc[c] = "thrown"

\* C6: every header the caller passes with an operation is on the wire, with
\* the caller's value, in every attempt of the call.
C6_CallerHeadersReachWire ==
  \A c \in Calls : \A i \in 1..Len(sent[c]) :
    passed[c].headers \subseteq sent[c][i].headers

\* the value C7 states for a 2xx body
ClaimedValue(body) ==
  IF JSONParse(body).ok THEN JSONParse(body).value
  ELSE Obj({<<"message", body>>})

\* C7 as stated: a 2xx response ends the call at once (no further attempt,
\* no sleep) and the call returns the parsed JSON when the body is valid
\* JSON and { message: body } when it is not.
C7_SuccessReturnsParsedOrMessage ==
  \A c \in Calls : \A i \in 1..Len(hist[c]) :
    IsSuccess(hist[c][i]) =>
      /\ i = Len(hist[c])
      /\ Len(sent[c]) = i
      /\ Len(sleeps[c]) = i - 1
      /\ pc[c] = "returned"
      /\ outcome[c].value = ClaimedValue(hist[c][i].body)

\* C7 amended: as stated, except that an empty body yields the empty
\* object {} (and not { message: "" }).
C7_SuccessReturnsParsedMessageOrEmpty ==
  \A c \in Calls : \A i \in 1..Len(hist[c]) :
    IsSuccess(hist[c][i]) =>
      /\ i = Len(hist[c])
      /\ Len(sent[c]) = i
      /\ Len(sleeps[c]) = i - 1
      /\ pc[c] = "returned"
      /\ outcome[c].value =
           IF hist[c][i].body = "" THEN EmptyObject
           ELSE ClaimedValue(hist[c][i].body)

\* C7 witness: after a 429 retry and a transport-failure retry, a 200 with
\* the body OK makes the call return { message: "OK" }.
C7_Witness ==
  \E c \in Calls :
    /\ Len(hist[c]) = 3
    /\ IsRateLimited(hist[c][1])
    /\ IsFailure(hist[c][2])
    /\ IsSuccess(hist[c][3])
    /\ hist[c][3].body = "OK"
    /\ pc[c] = "returned"
    /\ outcome[c].value = Obj({<<"message", "OK">>})

\* C8: when every attempt is answered 429, the call makes exactly
\* 1 + retries attempts, sleeps once after each attempt but the last (the
\* rate-limit sleep, never the backoff), and throws the API error of the
\* final response: a NotiBoostError with statusCode 429.
C8_RateLimitExhausted ==
  \A c \in Calls :
    (hist[c] # <<>> /\ \A i \in 1..Len(hist[c]) : IsRateLimited(hist[c][i])) =>
      /\ Len(hist[c]) <= client.retries + 1
      /\ \A i \in 1..Len(sleeps[c]) :
           sleeps[c][i] = RateLimitSleepMs(hist[c][i].retryAfter)
      /\ Len(hist[c]) <= client.retries =>
           /\ pc[c] \in {"sleeping", "pending"}
           /\ Len(sleeps[c]) = Len(hist[c])
      /\ Len(hist[c]) = client.retries + 1 =>
           /\ pc[c] = "thrown"
           /\ Len(sent[c]) = client.retries + 1
           /\ Len(sleeps[c]) = client.retries
           /\ outcome[c].error.name = "NotiBoostError"
           /\ outcome[c].error.statusCode = 429
           /\ outcome[c].error = ApiError(Resolved(Last(hist[c])))

\* C8 witness: three or more 429 responses, the last with another body than
\* the first, and the call has thrown the error of the last.
C8_Witness ==
  \E c \in Calls :
    /\ Len(hist[c]) >= 3
    /\ \A i \in 1..Len(hist[c]) : IsRateLimited(hist[c][i])
    /\ hist[c][1].body = "Too Many Requests"
    /\ Last(hist[c]).body = "{\"message\":\"slow down\"}"
    /\ pc[c] = "thrown"
    /\ outcome[c].error.message = "slow down"
    /\ outcome[c].error.statusCode = 429

\* C9: every attempt goes over the transport of the base URL's scheme:
\* HTTPS for an https URL on any port, plain HTTP only for an http URL.
C9_TransportFollowsScheme ==
  \A c \in Calls : \A i \in 1..Len(sent[c]) :
    sent[c][i].module = client.baseURL.scheme

\* C10: under every interleaving of concurrent calls, each call's attempt
\* counter, sleeps and outcome are those of the call run alone against the
\* same sequence of attempt outcomes, and the client's configuration stays
\* what the constructor set.
C10_CallsIndependent ==
  /\ client = Constructor(options)
  /\ \A c \in Calls :
       pc[c] # "idle" =>
         LET r == RunAlone(client.retries, hist[c])
         IN /\ sleeps[c] = r.sleeps
            /\ outcome[c] = r.outcome
            /\ lastError[c] = r.lastError
            /\ \/ pc[c] = r.pc /\ attempt[c] = r.attempt
               \/ r.pc = "sleeping" /\ pc[c] = "pending" /\
                  attempt[c] = r.attempt + 1
            /\ Len(sent[c]) = IF pc[c] = "thrown" /\ attempt[c] > client.retries
                                THEN attempt[c] ELSE attempt[c] + 1

\* C10 witness: two calls suspended in a sleep at the same time, at
\* different attempt indexes and after different outcomes.
C10_Witness ==
  /\ pc[1] = "sleeping"
  /\ pc[2] = "sleeping"
  /\ attempt[1] = 1
  /\ attempt[2] = 0
  /\ IsFailure(hist[1][1])
  /\ IsRateLimited(hist[1][2])
  /\ IsRateLimited(hist[2][1])

=============================================================================
